---- MODULE Spec2Model ----
(***************************************************************************)
(* Model of tensorflow_probability/examples/vq_vae.py: the vector          *)
(* quantizer, the exponential-moving-average codebook update, the graph    *)
(* built by make_vq_vae and the training loop of main.                     *)
(*                                                                         *)
(* Numbers are exact rationals <<numerator, denominator>> in lowest terms; *)
(* float32 rounding is not modelled.  Distances are compared through their *)
(* squares (tf.norm is the square root of the sum of squares, and the      *)
(* square root is monotone), in wide arithmetic so that no product         *)
(* overflows.                                                              *)
(***************************************************************************)
EXTENDS Integers, Sequences, FiniteSets, TLC

VARIABLES
  codebook,                  \* VectorQuantizer.codebook      [num_codes][code_size]
  ema_count,                 \* VectorQuantizer.ema_count     [num_codes]
  ema_means,                 \* VectorQuantizer.ema_means     [num_codes][code_size]
  opt_steps,                 \* per trainable variable: optimizer writes applied
  step,                      \* loop variable of main
  pc,                        \* position of main in its loop
  max_steps,                 \* FLAGS.max_steps
  running,                   \* a sess.run is in progress
  fetches,                   \* what the current (or last) sess.run fetches
  pruned,                    \* the operations that run needs
  done,                      \* graph operations executed by that run
  codes,                     \* tensor: encoder output of the run
  codebook_read,             \* tensor: the variable's read snapshot of the run
  seen,                      \* codebook value consumed by each reader of the run
  one_hot_assignments,       \* tensor: quantizer output of the run
  nearest_codebook_entries,  \* tensor: quantizer output of the run
  normalized,                \* tensor: updated_ema_means after line 284
  cb_start,                  \* history: codebook when the run began
  n_updates,                 \* history: executions of update_means so far
  status                     \* quantizer call alone: "idle", "ok" or "error"

persistent == <<codebook, ema_count, ema_means, opt_steps>>
control    == <<step, pc, max_steps, running, fetches, pruned>>
tensors    == <<codes, codebook_read, seen, one_hot_assignments,
                nearest_codebook_entries, normalized>>
vars == <<persistent, control, tensors, done, cb_start, n_updates, status>>

-----------------------------------------------------------------------------
(* Exact rational arithmetic.                                              *)

Abs(n) == IF n < 0 THEN -n ELSE n

RECURSIVE GCD(_, _)
GCD(a, b) == IF b = 0 THEN a ELSE GCD(b, a % b)

Rat(n, d) ==
  LET s == IF d < 0 THEN -1 ELSE 1
      g == GCD(Abs(n), Abs(d))
  IN  <<(s * n) \div g, (s * d) \div g>>

(* A function over 1..n as an evaluated tuple (f \o <<>> = f).             *)
Eval(f) == f \o <<>>

Zero == <<0, 1>>
One  == <<1, 1>>

(* Sums over the least common denominator and products with the common    *)
(* factors cancelled first, so that intermediate values stay small.        *)
RAdd(a, b) ==
  LET g == GCD(a[2], b[2])
  IN  Rat(a[1] * (b[2] \div g) + b[1] * (a[2] \div g), (a[2] \div g) * b[2])

RNeg(a) == <<-a[1], a[2]>>

RSub(a, b) == RAdd(a, RNeg(b))

RMul(a, b) ==
  LET g == GCD(Abs(a[1]), b[2])
      h == GCD(Abs(b[1]), a[2])
  IN  Rat((a[1] \div g) * (b[1] \div h), (a[2] \div h) * (b[2] \div g))

RDiv(a, b) == RMul(a, IF b[1] < 0 THEN <<-b[2], -b[1]>> ELSE <<b[2], b[1]>>)

RECURSIVE RSum(_)
RSum(s) == IF s = <<>> THEN Zero ELSE RAdd(Head(s), RSum(Tail(s)))

(* Wide naturals: little-endian digit sequences in base WBase, no leading  *)
(* zero digit; used only to compare squared distances.                     *)
WBase == 10000

RECURSIVE WOf(_)
WOf(n) == IF n = 0 THEN <<>> ELSE <<n % WBase>> \o WOf(n \div WBase)

RECURSIVE WAddC(_, _, _)
WAddC(a, b, c) ==
  IF a = <<>> /\ b = <<>>
    THEN (IF c = 0 THEN <<>> ELSE <<c>>)
    ELSE LET x == IF a = <<>> THEN 0 ELSE Head(a)
             y == IF b = <<>> THEN 0 ELSE Head(b)
             t == x + y + c
         IN  <<t % WBase>> \o WAddC(IF a = <<>> THEN a ELSE Tail(a),
                                    IF b = <<>> THEN b ELSE Tail(b),
                                    t \div WBase)

WAdd(a, b) == WAddC(a, b, 0)

RECURSIVE WMulD(_, _, _)
WMulD(a, s, c) ==
  IF a = <<>>
    THEN WOf(c)
    ELSE LET t == Head(a) * s + c
         IN  <<t % WBase>> \o WMulD(Tail(a), s, t \div WBase)

WShift(a) == IF a = <<>> THEN a ELSE <<0>> \o a

RECURSIVE WMul(_, _)
WMul(a, b) ==
  IF a = <<>> \/ b = <<>>
    THEN <<>>
    ELSE WAdd(IF Head(b) = 0 THEN <<>> ELSE WMulD(a, Head(b), 0),
              WShift(WMul(a, Tail(b))))

RECURSIVE WLess(_, _)
WLess(a, b) ==
  IF Len(a) # Len(b)
    THEN Len(a) < Len(b)
    ELSE IF a = <<>>
      THEN FALSE
      ELSE LET n == Len(a)
           IN  IF a[n] # b[n]
                 THEN a[n] < b[n]
                 ELSE WLess(SubSeq(a, 1, n - 1), SubSeq(b, 1, n - 1))

WSquare(n) == WMul(WOf(Abs(n)), WOf(Abs(n)))

RECURSIVE WSum(_)
WSum(s) == IF s = <<>> THEN <<>> ELSE WAdd(Head(s), WSum(Tail(s)))

(* A wide fraction <<numerator, denominator>> of wide naturals.            *)
FLess(f, g) == WLess(WMul(f[1], g[2]), WMul(g[1], f[2]))

RECURSIVE LCMDen(_)
LCMDen(s) ==
  IF s = <<>>
    THEN 1
    ELSE LET l == LCMDen(Tail(s))
         IN  (Head(s)[2] \div GCD(Head(s)[2], l)) * l

-----------------------------------------------------------------------------
(* VectorQuantizer.__call__                                                *)

(* Shape of the trailing axis after numpy-style broadcasting of a - b;     *)
(* 0 when the two sizes are incompatible (the graph builder raises).       *)
BroadcastDim(a, b) ==
  IF a = b THEN a ELSE IF a = 1 THEN b ELSE IF b = 1 THEN a ELSE 0

(* Element d of a vector that is broadcast along its axis when of size 1.  *)
At(v, d) == IF Len(v) = 1 THEN v[1] ELSE v[d]

(* tf.norm(codes[b][l] - codebook[k], axis=3), squared: the sum of the     *)
(* squared components over their common denominator, as a wide fraction.   *)
SqDistance(code, entry) ==
  LET n    == BroadcastDim(Len(code), Len(entry))
      diff == Eval([d \in 1..n |-> RSub(At(code, d), At(entry, d))])
      den  == LCMDen(diff)
  IN  <<WSum(Eval([d \in 1..n |->
               WSquare(diff[d][1] * (den \div diff[d][2]))])),
        WSquare(den)>>

(* tf.argmin over a sequence of distances: a scan that replaces the        *)
(* running minimum only by a strictly smaller value.                       *)
RECURSIVE ArgMinScan(_, _, _)
ArgMinScanLast(dist, k, best) ==
  IF k > Len(dist)
    THEN best
    ELSE ArgMinScan(dist, k + 1, IF FLess(dist[best], dist[k]) THEN best ELSE k)

ArgMinScan(dist, k, best) ==
  IF k > Len(dist)
    THEN best
    ELSE ArgMinScan(dist, k + 1, IF FLess(dist[k], dist[best]) THEN k ELSE best)

ArgMin(dist) == ArgMinScan(dist, 2, 1)

(* tf.one_hot(assignment, depth).                                          *)
OneHot(a, depth) == Eval([k \in 1..depth |-> IF k = a THEN 1 ELSE 0])

Distances(cs, cb) ==
  Eval([b \in 1..Len(cs) |-> Eval([l \in 1..Len(cs[b]) |->
     Eval([k \in 1..Len(cb) |-> SqDistance(cs[b][l], cb[k])])])])

Assignments(cs, cb) ==
  LET distances == Distances(cs, cb)
  IN  Eval([b \in 1..Len(cs) |->
         Eval([l \in 1..Len(cs[b]) |-> ArgMin(distances[b][l])])])

OneHotAssignments(cs, cb) ==
  LET assignments == Assignments(cs, cb)
  IN  Eval([b \in 1..Len(cs) |-> Eval([l \in 1..Len(cs[b]) |->
         OneHot(assignments[b][l], Len(cb))])])

NearestCodebookEntriesMean(oh, cb) ==
  Eval([b \in 1..Len(oh) |-> Eval([l \in 1..Len(oh[b]) |->
     Eval([d \in 1..Len(cb[1]) |->
        RDiv(RSum(Eval([k \in 1..Len(cb) |->
                RMul(<<oh[b][l][k], 1>>, cb[k][d])])),
             <<Len(cb), 1>>)])])])

(* reduce_sum(expand_dims(one_hot, -1) * reshape(codebook), axis=2).       *)
NearestCodebookEntries(oh, cb) ==
  Eval([b \in 1..Len(oh) |-> Eval([l \in 1..Len(oh[b]) |->
     Eval([d \in 1..Len(cb[1]) |->
        RSum(Eval([k \in 1..Len(cb) |->
           RMul(<<oh[b][l][k], 1>>, cb[k][d])]))])])])

ShapesCompatible(cs, cb) == BroadcastDim(Len(cs[1][1]), Len(cb[1])) # 0

(* The call as a whole: the two outputs, or the shape error raised while   *)
(* the subtraction of line 139 is built.                                   *)
Quantize(cs, cb) ==
  IF ~ShapesCompatible(cs, cb)
    THEN [error |-> TRUE, nearest |-> <<>>, one_hot |-> <<>>]
    ELSE LET oh == OneHotAssignments(cs, cb)
         IN  [error |-> FALSE,
              nearest |-> NearestCodebookEntries(oh, cb),
              one_hot |-> oh]

-----------------------------------------------------------------------------
(* SpecQ: the quantizer as a pure function of bounded inputs.              *)

QMax == 1
NumCodes == 2
CodeSize == 2

IntVec(n, S) == [1..n -> {<<v, 1>> : v \in S}]

ExampleCodebook ==
  << <<<<0, 1>>, <<0, 1>>>>, <<<<10, 1>>, <<10, 1>>>>,
     <<<<-10, 1>>, <<10, 1>>>>, <<<<10, 1>>, <<-10, 1>>>> >>

ExampleCodes == << << <<<<1, 10>>, <<1, 10>>>> >> >>

QCodebooks ==
  [1..NumCodes -> IntVec(CodeSize, -QMax..QMax)]
    \cup [1..(NumCodes + 1) -> IntVec(CodeSize, 0..QMax)]
    \cup {ExampleCodebook}

(* One latent vector of trailing size 1, code_size or code_size + 1, a     *)
(* two-by-two batch, and the documented example.                           *)
QCodes ==
  {<< <<v>> >> : v \in UNION {IntVec(n, 0..QMax) : n \in 1..(CodeSize + 1)}}
    \cup {<< <<v, w>>, <<w, v>> >> :
            v \in IntVec(CodeSize, {0}), w \in IntVec(CodeSize, {QMax})}
    \cup {ExampleCodes}

NoTensors ==
  /\ codebook_read = <<>>
  /\ seen = [distances |-> <<>>, nearest |-> <<>>]
  /\ one_hot_assignments = <<>>
  /\ nearest_codebook_entries = <<>>
  /\ normalized = <<>>

InitQ ==
  /\ codebook \in QCodebooks
  /\ codes \in QCodes
  /\ ema_count = <<>>
  /\ ema_means = <<>>
  /\ opt_steps = <<>>
  /\ step = 0
  /\ pc = "call"
  /\ max_steps = 0
  /\ running = FALSE
  /\ fetches = {}
  /\ pruned = {}
  /\ done = {}
  /\ NoTensors
  /\ cb_start = codebook
  /\ n_updates = 0
  /\ status = "idle"

QuantizerCall ==
  /\ status = "idle"
  /\ LET r == Quantize(codes, codebook)
     IN  /\ status' = IF r.error THEN "error" ELSE "ok"
         /\ one_hot_assignments' = r.one_hot
         /\ nearest_codebook_entries' = r.nearest
  /\ UNCHANGED <<persistent, control, codes, codebook_read, seen, normalized,
                 done, cb_start, n_updates>>

NextQ == QuantizerCall

SpecQ == InitQ /\ [][NextQ]_vars

-----------------------------------------------------------------------------
(* The graph built by make_vq_vae and main: each operation's data inputs   *)
(* and control inputs.  Variables are leaves.  log_prob and                *)
(* commitment_error are the tensors the two reduce_mean calls of lines 265 *)
(* and 266-267 reduce.  A gradient operation consumes the forward tensors  *)
(* it differentiates through, not the reduced scalars: the shape of a      *)
(* scalar is static, so nothing in the backward pass waits for the value   *)
(* of reconstruction_loss, commitment_loss or loss.                        *)

TrainableVariables == {"encoder_net", "decoder_net", "codebook"}
Variables == TrainableVariables \cup {"ema_count", "ema_means"}

GradientsOp(v) ==
  CASE v = "encoder_net" -> "gradients_encoder_net"
    [] v = "decoder_net" -> "gradients_decoder_net"
    [] v = "codebook"    -> "gradients_codebook"

ApplyOp(v) ==
  CASE v = "encoder_net" -> "apply_encoder_net"
    [] v = "decoder_net" -> "apply_decoder_net"
    [] v = "codebook"    -> "apply_codebook"

DataInputs(op) ==
  CASE op = "codes"                    -> {"images", "encoder_net"}
    [] op = "codebook_read"            -> {"codebook"}
    [] op = "distances"                -> {"codes", "codebook_read"}
    [] op = "assignments"              -> {"distances"}
    [] op = "one_hot_assignments"      -> {"assignments"}
    [] op = "nearest_codebook_entries" -> {"one_hot_assignments", "codebook_read"}
    [] op = "stop_gradient_st"         -> {"nearest_codebook_entries", "codes"}
    [] op = "codes_straight_through"   -> {"codes", "stop_gradient_st"}
    [] op = "decoder_distribution"     -> {"codes_straight_through", "decoder_net"}
    [] op = "log_prob"                 -> {"decoder_distribution", "images"}
    [] op = "reconstruction_loss"      -> {"log_prob"}
    [] op = "stop_gradient_commit"     -> {"nearest_codebook_entries"}
    [] op = "commitment_error"         -> {"codes", "stop_gradient_commit"}
    [] op = "commitment_loss"          -> {"commitment_error"}
    [] op = "updated_ema_count"        -> {"ema_count", "one_hot_assignments"}
    [] op = "updated_ema_means"        -> {"ema_means", "codes", "one_hot_assignments"}
    [] op = "normalized"               -> {"updated_ema_count", "updated_ema_means"}
    [] op = "update_means"             -> {"codebook", "normalized"}
    [] op = "beta_commitment_loss"     -> {"commitment_loss"}
    [] op = "loss"                     -> {"beta_commitment_loss", "reconstruction_loss"}
    [] op = "summary"                  -> {"reconstruction_loss", "commitment_loss", "loss"}
    [] op = "reconstructed_images"     -> {"decoder_distribution"}
    [] op = "prior_samples"            -> {"codebook_read"}
    [] op = "random_images"            -> {"prior_samples", "decoder_net"}
    [] op = "gradients_decoder_net"    ->
         {"log_prob", "decoder_distribution", "codes_straight_through",
          "images", "decoder_net"}
    [] op = "gradients_encoder_net"    ->
         {"log_prob", "decoder_distribution", "codes_straight_through",
          "images", "decoder_net", "commitment_error", "stop_gradient_commit",
          "codes", "encoder_net"}
    [] op = "gradients_codebook"       ->
         {"commitment_error", "nearest_codebook_entries", "one_hot_assignments",
          "codebook_read"}
    [] op = "apply_encoder_net"        -> {"gradients_encoder_net", "encoder_net"}
    [] op = "apply_decoder_net"        -> {"gradients_decoder_net", "decoder_net"}
    [] op = "apply_codebook"           -> {"gradients_codebook", "codebook"}
    [] OTHER                           -> {}

(* tf.stop_gradient, lines 262 and 267.                                    *)
StopGradientOpsStraightThroughOnly == {"stop_gradient_st"}

StopGradientOps == {"stop_gradient_st", "stop_gradient_commit"}

(* Operations with no registered gradient: argmin and one_hot.             *)
NotDifferentiable == {"assignments", "one_hot_assignments"}

(* Everything reachable from the operations in S along data inputs,        *)
(* without passing through an operation of Blocked.                        *)
RECURSIVE Upstream(_, _)
Upstream(S, Blocked) ==
  LET more == S \cup UNION {DataInputs(o) : o \in S \ Blocked}
  IN  IF more = S THEN S ELSE Upstream(more, Blocked)

(* optimizer.minimize(loss): compute_gradients over the trainable          *)
(* variables; apply_gradients skips a variable whose gradient is None.     *)
GradVars ==
  TrainableVariables
    \cap Upstream({"loss"}, StopGradientOps \cup NotDifferentiable)

ControlInputsNoUpdate(op) ==
  CASE op = "update_means"         -> {"commitment_loss"}
    [] op = "train_op"             -> {ApplyOp(v) : v \in GradVars}
    [] OTHER                       -> {}

ControlInputsNoBarrier(op) ==
  CASE op = "beta_commitment_loss" -> {"update_means"}
    [] op = "train_op"             -> {ApplyOp(v) : v \in GradVars}
    [] OTHER                       -> {}

(* tf.control_dependencies of lines 285 and 287; train_op groups the       *)
(* optimizer's apply operations.                                           *)
ControlInputs(op) ==
  CASE op = "update_means"         -> {"commitment_loss"}
    [] op = "beta_commitment_loss" -> {"update_means"}
    [] op = "train_op"             -> {ApplyOp(v) : v \in GradVars}
    [] OTHER                       -> {}

(* What an operation waits for: its inputs that are operations.            *)
Deps(op) == (DataInputs(op) \cup ControlInputs(op)) \ Variables

(* What sess.run executes for a set of fetches.                            *)
RECURSIVE Subgraph(_)
Subgraph(F) ==
  LET more == F \cup UNION {Deps(o) : o \in F}
  IN  IF more = F THEN F ELSE Subgraph(more)

-----------------------------------------------------------------------------
(* The exponential moving average update of make_vq_vae.                   *)

Decay == <<3, 4>>
Epsilon == <<1, 100000>>
LearningRate == <<1, 1000>>

AssignMovingAverageDecayWeight(variable, value, decay) ==
  RSub(variable, RMul(RSub(variable, value), decay))

(* moving_averages.assign_moving_average(variable, value, decay,           *)
(* zero_debias=False): variable -= (variable - value) * (1 - decay).       *)
AssignMovingAverage(variable, value, decay) ==
  RSub(variable, RMul(RSub(variable, value), RSub(One, decay)))

(* tf.reduce_sum(one_hot_assignments, axis=[0, 1]).                        *)
BatchCounts(oh) ==
  Eval([k \in 1..Len(oh[1][1]) |->
     RSum(Eval([b \in 1..Len(oh) |->
        RSum(Eval([l \in 1..Len(oh[b]) |-> <<oh[b][l][k], 1>>]))]))])

(* tf.reduce_sum(expand_dims(codes, 2) * expand_dims(one_hot, 3), [0, 1]). *)
BatchMeans(cs, oh) ==
  Eval([k \in 1..Len(oh[1][1]) |-> Eval([d \in 1..Len(cs[1][1]) |->
     RSum(Eval([b \in 1..Len(oh) |->
        RSum(Eval([l \in 1..Len(oh[b]) |->
           RMul(cs[b][l][d], <<oh[b][l][k], 1>>)]))]))])])

UpdatedEmaCount(cnt, oh) ==
  LET value == BatchCounts(oh)
  IN  Eval([k \in 1..Len(cnt) |->
         AssignMovingAverage(cnt[k], value[k], Decay)])

UpdatedEmaMeans(means, cs, oh) ==
  LET value == BatchMeans(cs, oh)
  IN  Eval([k \in 1..Len(means) |-> Eval([d \in 1..Len(means[k]) |->
         AssignMovingAverage(means[k][d], value[k][d], Decay)])])

NormalizedMeansWrongAxis(cnt, means) ==
  Eval([k \in 1..Len(means) |-> Eval([d \in 1..Len(means[k]) |->
     RDiv(means[k][d], RAdd(cnt[d], Epsilon))])])

(* Lines 283-284: the tensor updated_ema_count + 1e-5 and the quotient;    *)
(* neither is stored in ema_count or ema_means.                            *)
NormalizedMeans(cnt, means) ==
  Eval([k \in 1..Len(means) |-> Eval([d \in 1..Len(means[k]) |->
     RDiv(means[k][d], RAdd(cnt[k], Epsilon))])])

(* An Adam step on a variable that has a gradient: each entry moves by     *)
(* about learning_rate.                                                    *)
OptimizerWrite(v) ==
  Eval([k \in 1..Len(v) |->
     Eval([d \in 1..Len(v[k]) |-> RSub(v[k][d], LearningRate)])])

-----------------------------------------------------------------------------
(* main: the training loop, one action per sess.run.                       *)

MaxSteps == 2
VizSteps == 2
SummaryEvery == 100
BatchSize == 2
LatentSize == 1
CodeValues == {0, 1}

(* What the encoder can produce for one batch: latent vectors with         *)
(* non-increasing integer components drawn from CodeValues.                *)
CodeVectors ==
  {v \in IntVec(CodeSize, CodeValues) :
     \A d \in 1..(CodeSize - 1) : v[d][1] >= v[d + 1][1]}

(* The number of non-zero components of one example's latent vectors.      *)
CodeWeight(lat) ==
  Cardinality({pos \in (1..LatentSize) \X (1..CodeSize) :
                 lat[pos[1]][pos[2]][1] # 0})

(* The batches of one run, up to the order of the examples: the dataset is *)
(* shuffled and the reductions over the batch axis are symmetric.          *)
CodeBatches ==
  {cs \in [1..BatchSize -> [1..LatentSize -> CodeVectors]] :
     \A b \in 1..(BatchSize - 1) : CodeWeight(cs[b]) <= CodeWeight(cs[b + 1])}

(* Values the codebook initializer can produce.                            *)
InitCodebooks ==
  { << <<<<0, 1>>, <<0, 1>>>>, <<<<1, 1>>, <<1, 1>>>> >>,
    << <<<<0, 1>>, <<0, 1>>>>, <<<<3, 1>>, <<3, 1>>>> >> }

InitVariablesZeroMeans ==
  /\ codebook \in InitCodebooks
  /\ Len(codebook) = NumCodes
  /\ ema_count = [k \in 1..NumCodes |-> Zero]
  /\ ema_means = [k \in 1..NumCodes |-> [d \in 1..CodeSize |-> Zero]]
  /\ opt_steps = [v \in TrainableVariables |-> 0]

(* VectorQuantizer.__init__ followed by sess.run(init).                    *)
InitVariables ==
  /\ codebook \in InitCodebooks
  /\ Len(codebook) = NumCodes
  /\ ema_count = [k \in 1..NumCodes |-> Zero]
  /\ ema_means = codebook
  /\ opt_steps = [v \in TrainableVariables |-> 0]

Init ==
  /\ InitVariables
  /\ step = 0
  /\ pc = "train"
  /\ max_steps = MaxSteps
  /\ running = FALSE
  /\ fetches = {}
  /\ pruned = {}
  /\ done = {}
  /\ codes = <<>>
  /\ NoTensors
  /\ cb_start = codebook
  /\ n_updates = 0
  /\ status = "idle"

FetchesVizLoss(p) ==
  CASE p = "train"       -> {"train_op", "loss"}
    [] p = "summary"     -> {"summary"}
    [] p = "viz_train"   -> {"images", "reconstructed_images", "random_images",
                             "loss"}
    [] p = "viz_heldout" -> {"images", "reconstructed_images"}

Fetches(p) ==
  CASE p = "train"       -> {"train_op", "loss"}
    [] p = "summary"     -> {"summary"}
    [] p = "viz_train"   -> {"images", "reconstructed_images", "random_images"}
    [] p = "viz_heldout" -> {"images", "reconstructed_images"}

AfterIteration(st, ms) ==
  [pc |-> IF st + 1 < ms THEN "train" ELSE "done", step |-> st + 1]

AfterSummary(st, ms) ==
  IF (st + 1) % VizSteps = 0 \/ (st + 1) = ms
    THEN [pc |-> "save", step |-> st]
    ELSE AfterIteration(st, ms)

AfterRun(p, st, ms) ==
  CASE p = "train"       -> IF st % SummaryEvery = 0
                              THEN [pc |-> "summary", step |-> st]
                              ELSE AfterSummary(st, ms)
    [] p = "summary"     -> AfterSummary(st, ms)
    [] p = "viz_train"   -> [pc |-> "viz_heldout", step |-> st]
    [] p = "viz_heldout" -> AfterIteration(st, ms)

(* One sess.run of main, from feeding the handle to returning the fetched  *)
(* values: every operation the fetches need runs once.                     *)
SessRun(p) ==
  /\ pc = p
  /\ ~running
  /\ \E sub \in {Subgraph(Fetches(p))} :
     \E cs \in CodeBatches :
     \E oh \in {OneHotAssignments(cs, codebook)} :
     \E cnt \in {IF "updated_ema_count" \in sub
                   THEN UpdatedEmaCount(ema_count, oh) ELSE ema_count},
        means \in {IF "updated_ema_means" \in sub
                     THEN UpdatedEmaMeans(ema_means, cs, oh) ELSE ema_means} :
     \E norm \in {IF "normalized" \in sub
                    THEN NormalizedMeans(cnt, means) ELSE <<>>} :
     \E cb \in {IF "update_means" \in sub THEN norm ELSE codebook} :
       /\ fetches' = Fetches(p)
       /\ pruned' = sub
       /\ done' = sub
       /\ codes' = cs
       /\ codebook_read' = codebook
       /\ seen' = [distances |-> codebook, nearest |-> codebook]
       /\ one_hot_assignments' = oh
       /\ nearest_codebook_entries' = NearestCodebookEntries(oh, codebook)
       /\ normalized' = norm
       /\ ema_count' = cnt
       /\ ema_means' = means
       /\ codebook' \in
            IF ApplyOp("codebook") \in sub
              THEN {cb, OptimizerWrite(cb)} ELSE {cb}
       /\ opt_steps' = [v \in TrainableVariables |->
            IF ApplyOp(v) \in sub THEN opt_steps[v] + 1 ELSE opt_steps[v]]
       /\ n_updates' = IF "update_means" \in sub
                         THEN n_updates + 1 ELSE n_updates
  /\ cb_start' = codebook
  /\ pc' = AfterRun(p, step, max_steps).pc
  /\ step' = AfterRun(p, step, max_steps).step
  /\ UNCHANGED <<max_steps, running, status>>

TrainRun == SessRun("train")

SummaryRun == SessRun("summary")

VizTrainRun == SessRun("viz_train")

VizHeldoutRun == SessRun("viz_heldout")

(* saver.save: reads the variables, writes a file.                         *)
SaveCheckpoint ==
  /\ pc = "save"
  /\ ~running
  /\ pc' = "viz_train"
  /\ UNCHANGED <<persistent, step, max_steps, running, fetches, pruned, tensors,
                 done, cb_start, n_updates, status>>

Next ==
  \/ TrainRun
  \/ SummaryRun
  \/ SaveCheckpoint
  \/ VizTrainRun
  \/ VizHeldoutRun

Spec == Init /\ [][Next]_vars

-----------------------------------------------------------------------------
(* SpecSched: the same loop with each sess.run executed one graph          *)
(* operation at a time, in any order the data and control inputs allow.    *)

SchedMaxSteps == 1

InitSched ==
  /\ InitVariables
  /\ step = 0
  /\ pc = "train"
  /\ max_steps = SchedMaxSteps
  /\ running = FALSE
  /\ fetches = {}
  /\ pruned = {}
  /\ done = {}
  /\ codes = <<>>
  /\ NoTensors
  /\ cb_start = codebook
  /\ n_updates = 0
  /\ status = "idle"

(* sess.run prunes the graph to what the fetches need and starts.          *)
StartRun ==
  /\ pc \in {"train", "summary", "viz_train", "viz_heldout"}
  /\ ~running
  /\ running' = TRUE
  /\ fetches' = Fetches(pc)
  /\ pruned' = Subgraph(Fetches(pc))
  /\ done' = {}
  /\ codes' = <<>>
  /\ codebook_read' = <<>>
  /\ seen' = [distances |-> <<>>, nearest |-> <<>>]
  /\ one_hot_assignments' = <<>>
  /\ nearest_codebook_entries' = <<>>
  /\ normalized' = <<>>
  /\ cb_start' = codebook
  /\ UNCHANGED <<persistent, step, pc, max_steps, n_updates, status>>

(* The executor may run an operation once all it waits for has run.        *)
Ready(op) ==
  /\ running
  /\ op \in pruned
  /\ op \notin done
  /\ Deps(op) \subseteq done

Ran(op) ==
  /\ done' = done \cup {op}
  /\ UNCHANGED <<control, cb_start, status>>

(* The value a reader of the codebook consumes: the read snapshot shares   *)
(* the variable's buffer, so it is the snapshot or the variable's value    *)
(* when the reader runs.                                                   *)
ReadValues == {codebook_read, codebook}

(* Operations that neither read nor write what the model keeps.            *)
StatelessOps ==
  {"images", "assignments", "stop_gradient_st", "codes_straight_through",
   "decoder_distribution", "log_prob", "reconstruction_loss",
   "stop_gradient_commit", "commitment_error", "commitment_loss",
   "beta_commitment_loss", "loss", "summary",
   "reconstructed_images", "prior_samples", "random_images", "train_op"}
    \cup {GradientsOp(v) : v \in TrainableVariables}

RunStateless ==
  \E op \in StatelessOps :
    /\ Ready(op)
    /\ Ran(op)
    /\ UNCHANGED <<persistent, tensors, n_updates>>

RunEncoder ==
  /\ Ready("codes")
  /\ Ran("codes")
  /\ codes' \in CodeBatches
  /\ UNCHANGED <<persistent, codebook_read, seen, one_hot_assignments,
                 nearest_codebook_entries, normalized, n_updates>>

RunCodebookRead ==
  /\ Ready("codebook_read")
  /\ Ran("codebook_read")
  /\ codebook_read' = codebook
  /\ UNCHANGED <<persistent, codes, seen, one_hot_assignments,
                 nearest_codebook_entries, normalized, n_updates>>

RunDistances ==
  /\ Ready("distances")
  /\ Ran("distances")
  /\ \E v \in ReadValues : seen' = [seen EXCEPT !.distances = v]
  /\ UNCHANGED <<persistent, codes, codebook_read, one_hot_assignments,
                 nearest_codebook_entries, normalized, n_updates>>

RunOneHot ==
  /\ Ready("one_hot_assignments")
  /\ Ran("one_hot_assignments")
  /\ one_hot_assignments' = OneHotAssignments(codes, seen.distances)
  /\ UNCHANGED <<persistent, codes, codebook_read, seen,
                 nearest_codebook_entries, normalized, n_updates>>

RunNearest ==
  /\ Ready("nearest_codebook_entries")
  /\ Ran("nearest_codebook_entries")
  /\ \E v \in ReadValues :
       /\ seen' = [seen EXCEPT !.nearest = v]
       /\ nearest_codebook_entries' =
            NearestCodebookEntries(one_hot_assignments, v)
  /\ UNCHANGED <<persistent, codes, codebook_read, one_hot_assignments,
                 normalized, n_updates>>

RunUpdatedEmaCount ==
  /\ Ready("updated_ema_count")
  /\ Ran("updated_ema_count")
  /\ ema_count' = UpdatedEmaCount(ema_count, one_hot_assignments)
  /\ UNCHANGED <<codebook, ema_means, opt_steps, tensors, n_updates>>

RunUpdatedEmaMeans ==
  /\ Ready("updated_ema_means")
  /\ Ran("updated_ema_means")
  /\ ema_means' = UpdatedEmaMeans(ema_means, codes, one_hot_assignments)
  /\ UNCHANGED <<codebook, ema_count, opt_steps, tensors, n_updates>>

RunNormalized ==
  /\ Ready("normalized")
  /\ Ran("normalized")
  /\ normalized' = NormalizedMeans(ema_count, ema_means)
  /\ UNCHANGED <<persistent, codes, codebook_read, seen, one_hot_assignments,
                 nearest_codebook_entries, n_updates>>

RunUpdateMeans ==
  /\ Ready("update_means")
  /\ Ran("update_means")
  /\ codebook' = normalized
  /\ n_updates' = n_updates + 1
  /\ UNCHANGED <<ema_count, ema_means, opt_steps, tensors>>

RunApplyGradients ==
  \E v \in TrainableVariables :
    /\ Ready(ApplyOp(v))
    /\ Ran(ApplyOp(v))
    /\ opt_steps' = [opt_steps EXCEPT ![v] = @ + 1]
    /\ codebook' = IF v = "codebook" THEN OptimizerWrite(codebook) ELSE codebook
    /\ UNCHANGED <<ema_count, ema_means, tensors, n_updates>>

(* sess.run returns once everything the fetches need has run.              *)
EndRun ==
  /\ running
  /\ pruned \subseteq done
  /\ running' = FALSE
  /\ pc' = AfterRun(pc, step, max_steps).pc
  /\ step' = AfterRun(pc, step, max_steps).step
  /\ UNCHANGED <<persistent, max_steps, fetches, pruned, tensors, done,
                 cb_start, n_updates, status>>

NextSched ==
  \/ StartRun
  \/ RunStateless
  \/ RunEncoder
  \/ RunCodebookRead
  \/ RunDistances
  \/ RunOneHot
  \/ RunNearest
  \/ RunUpdatedEmaCount
  \/ RunUpdatedEmaMeans
  \/ RunNormalized
  \/ RunUpdateMeans
  \/ RunApplyGradients
  \/ EndRun
  \/ SaveCheckpoint

SpecSched == InitSched /\ [][NextSched]_vars

-----------------------------------------------------------------------------
(* Properties.                                                             *)

(* The run evaluates the loss built by make_vq_vae.                        *)
LossRun == "loss" \in pruned

(* The run is a training step: sess.run([train_op, loss]).                 *)
TrainStep == "train_op" \in pruned

Quantized == {"distances", "nearest_codebook_entries"} \subseteq done

Applied == {ApplyOp(v) : v \in GradVars}

(* C1: within one run of the loss, the codebook write (update_means) comes *)
(* after both reads of the codebook, and the read for the distances and    *)
(* the read for the gather both see the codebook as it was when the run    *)
(* began, in every execution order.                                        *)
C1_WriteAfterReads ==
  LossRun =>
    /\ "update_means" \in done => Quantized
    /\ "distances" \in done => seen.distances = cb_start
    /\ "nearest_codebook_entries" \in done => seen.nearest = cb_start

C1_Witness ==
  /\ LossRun
  /\ "update_means" \in done
  /\ codebook # cb_start
  /\ seen.distances = cb_start
  /\ seen.nearest = cb_start

(* C2 as stated: in a training step the phases are strictly ordered,       *)
(* quantization, then the loss, then the optimizer's write of the encoder  *)
(* and decoder parameters, then the codebook write.                        *)
C2_StrictPhaseOrder ==
  TrainStep =>
    /\ "loss" \in done => Quantized
    /\ \A op \in Applied : op \in done => "loss" \in done
    /\ "update_means" \in done => Applied \subseteq done

(* C2 amended: in a training step both codebook reads precede the          *)
(* commitment loss, the commitment loss precedes the codebook write, the   *)
(* codebook write precedes the value of the loss, and every optimizer      *)
(* write follows the quantization and the decoder's log-probability of the *)
(* images; the codebook write is not ordered after the optimizer's writes. *)
C2_PhaseOrder ==
  TrainStep =>
    /\ "commitment_loss" \in done => Quantized
    /\ "update_means" \in done => "commitment_loss" \in done
    /\ "loss" \in done => "update_means" \in done
    /\ \A op \in Applied :
         op \in done => Quantized /\ "log_prob" \in done

C2_Witness ==
  /\ TrainStep
  /\ "update_means" \in done
  /\ codebook # cb_start
  /\ Applied \cap done = {}
  /\ "loss" \notin done

(* C3 as stated: one EMA codebook update per loop iteration, so the number *)
(* of updates equals the number of iterations completed (plus the one in   *)
(* progress once its training run has returned).                           *)
C3_OneUpdatePerStep ==
  n_updates = IF pc \in {"train", "done"} THEN step ELSE step + 1

(* C4: every data path from the loss to the codebook passes through a      *)
(* stop_gradient, the optimizer never writes the codebook, and the only    *)
(* operation whose execution changes the codebook is update_means.         *)
C4_CodebookNotTrained ==
  [][/\ "codebook" \notin Upstream({"loss"}, StopGradientOps)
     /\ "codebook" \notin GradVars
     /\ opt_steps'["codebook"] = 0
     /\ codebook' # codebook => done' = done \cup {"update_means"}]_vars

C4_Witness ==
  /\ TrainStep
  /\ "train_op" \in done
  /\ opt_steps["encoder_net"] = 1
  /\ opt_steps["decoder_net"] = 1
  /\ "update_means" \notin done
  /\ codebook = cb_start
  /\ "codebook" \in Upstream({"loss"}, {})

(* Squared Euclidean distance in plain rational arithmetic.                *)
RLess(a, b) == a[1] * b[2] < b[1] * a[2]

RSqDist(x, y) ==
  RSum([d \in 1..Len(x) |-> RMul(RSub(x[d], y[d]), RSub(x[d], y[d]))])

WellShaped == Len(codes[1][1]) = Len(codebook[1])

C6_NearestMatchesOneHot ==
  (status = "ok" /\ WellShaped) =>
    /\ Len(nearest_codebook_entries) = Len(codes)
    /\ \A b \in 1..Len(codes) :
         /\ Len(nearest_codebook_entries[b]) = Len(codes[b])
         /\ \A l \in 1..Len(codes[b]) :
              /\ Len(nearest_codebook_entries[b][l]) = Len(codes[b][l])
              /\ \E k \in 1..Len(codebook) : one_hot_assignments[b][l][k] = 1
              /\ \A k \in 1..Len(codebook) :
                   one_hot_assignments[b][l][k] = 1 =>
                     nearest_codebook_entries[b][l] = codebook[k]

C6_Witness ==
  /\ status = "ok"
  /\ WellShaped
  /\ Len(codes) = 2
  /\ Len(codes[1]) = 2
  /\ nearest_codebook_entries[1][1] # nearest_codebook_entries[1][2]
  /\ nearest_codebook_entries[1][1] = codebook[2]

(* The positions (batch, latent) whose one_hot row marks code k, and the   *)
(* sum of component d of the codes at a set of positions.                  *)
AssignedTo(oh, k) ==
  {pos \in (1..Len(oh)) \X (1..Len(oh[1])) : oh[pos[1]][pos[2]][k] = 1}

RECURSIVE SumAt(_, _, _)
SumAt(S, cs, d) ==
  IF S = {}
    THEN Zero
    ELSE LET pos == CHOOSE x \in S : TRUE
         IN  RAdd(cs[pos[1]][pos[2]][d], SumAt(S \ {pos}, cs, d))

Updated == n_updates' = n_updates + 1

(* C7: each EMA update stores decay * ema_count[k] + (1 - decay) * (number *)
(* of latent vectors assigned to k) and decay * ema_means[k] + (1 - decay) *)
(* * (sum of the codes assigned to k); with nothing assigned to k both are *)
(* multiplied by exactly decay, and epsilon is not part of what is stored. *)
C7_EmaUpdate ==
  [][Updated =>
       \A k \in 1..NumCodes :
         LET S == AssignedTo(one_hot_assignments', k)
             n == <<Cardinality(S), 1>>
             w == RSub(One, Decay)
         IN  /\ ema_count'[k] = RAdd(RMul(Decay, ema_count[k]), RMul(w, n))
             /\ \A d \in 1..CodeSize :
                  ema_means'[k][d] =
                    RAdd(RMul(Decay, ema_means[k][d]),
                         RMul(w, SumAt(S, codes', d)))
             /\ S = {} =>
                  /\ ema_count'[k] = RMul(Decay, ema_count[k])
                  /\ \A d \in 1..CodeSize :
                       ema_means'[k][d] = RMul(Decay, ema_means[k][d])]_vars

C7_Witness ==
  /\ n_updates >= 2
  /\ "update_means" \in done
  /\ AssignedTo(one_hot_assignments, 2) = {}
  /\ ema_count[2] # Zero
  /\ Cardinality(AssignedTo(one_hot_assignments, 1)) = 2
  /\ ema_means[1] # ema_means[2]

(* C8: after every update, codebook[k] = ema_means[k] / (ema_count[k] +    *)
(* 1e-5) for the stored accumulators; with decay 0.5, count 0, means       *)
(* [0, 0], batch count 2 and batch sum [1, 1] the update gives count 1.0,  *)
(* means [0.5, 0.5] and a codebook entry within 1e-5 of [0.5, 0.5].        *)
C8_CodebookIsNormalizedMean ==
  /\ n_updates > 0 =>
       \A k \in 1..NumCodes : \A d \in 1..CodeSize :
         /\ codebook[k][d] = RDiv(ema_means[k][d], RAdd(ema_count[k], Epsilon))
         /\ RMul(codebook[k][d], RAdd(ema_count[k], Epsilon)) = ema_means[k][d]
  /\ LET half  == <<1, 2>>
         cnt   == AssignMovingAverage(Zero, <<2, 1>>, half)
         mean  == AssignMovingAverage(Zero, One, half)
         entry == NormalizedMeans(<<cnt, Zero>>,
                     << <<mean, mean>>, <<Zero, Zero>> >>)[1][1]
     IN  /\ cnt = One
         /\ mean = half
         /\ RLess(entry, half)
         /\ RLess(RSub(half, entry), Epsilon)

C8_Witness ==
  /\ n_updates >= 2
  /\ ema_count[1] # Zero
  /\ ema_count[2] # Zero
  /\ ema_count[1] # ema_count[2]
  /\ codebook[1] # codebook[2]
  /\ codebook[1][1] # codebook[1][2]

(* C9 as stated: codes whose trailing dimension differs from code_size     *)
(* make the quantizer fail and produce no outputs.                         *)
C9_MismatchRaises ==
  (status # "idle" /\ ~WellShaped) =>
    /\ status = "error"
    /\ one_hot_assignments = <<>>
    /\ nearest_codebook_entries = <<>>

(* C10 as stated: an update leaves codebook[k] unchanged for every code k  *)
(* that no vector has been assigned to so far (its ema_count is still 0).  *)
C10_UnselectedKeepsValue ==
  [][Updated =>
       \A k \in 1..NumCodes :
         ema_count'[k] = Zero => codebook'[k] = codebook[k]]_vars

(* C10 amended: a code is without selections exactly while its ema_count   *)
(* is 0; an update multiplies its ema_means by decay and sets codebook[k]  *)
(* to ema_means[k] / 1e-5, so the first update multiplies the entry by     *)
(* decay * 1e5 and every later update by decay.                            *)
C10_UnselectedDecays ==
  [][Updated =>
       \A k \in 1..NumCodes :
         /\ ema_count'[k] = Zero
              <=> (ema_count[k] = Zero /\ AssignedTo(one_hot_assignments', k) = {})
         /\ ema_count'[k] = Zero =>
              \A d \in 1..CodeSize :
                /\ ema_means'[k][d] = RMul(Decay, ema_means[k][d])
                /\ codebook'[k][d] = RMul(<<100000, 1>>, ema_means'[k][d])
                /\ codebook'[k][d] =
                     IF n_updates = 0
                       THEN RMul(RMul(Decay, <<100000, 1>>), codebook[k][d])
                       ELSE RMul(Decay, codebook[k][d])]_vars

C10_Witness ==
  /\ n_updates >= 2
  /\ ema_count[2] = Zero
  /\ ema_count[1] # Zero
  /\ codebook[2][1] # Zero
  /\ codebook[2] # ema_means[2]

(* The run in progress or about to start is one of the two visualization   *)
(* runs of lines 478-480 and 488-490.                                      *)
VizRun == pc \in {"viz_train", "viz_heldout"}

(* C11: the visualization runs on the training handle and on the held-out  *)
(* handle only read the model state: they leave the codebook, ema_count,   *)
(* ema_means and the encoder and decoder parameters unchanged and apply no *)
(* EMA update, after any sequence of training steps.                       *)
C11_VizRunsReadOnly ==
  [][VizRun =>
       /\ codebook' = codebook
       /\ ema_count' = ema_count
       /\ ema_means' = ema_means
       /\ opt_steps' = opt_steps
       /\ n_updates' = n_updates
       /\ pruned' \cap ({"update_means", "updated_ema_count",
                         "updated_ema_means"}
                          \cup {ApplyOp(v) : v \in TrainableVariables}) = {}]_vars

C11_Witness ==
  /\ fetches = {"images", "reconstructed_images"}
  /\ {"reconstructed_images", "codebook_read", "nearest_codebook_entries"}
       \subseteq done
  /\ n_updates >= 2
  /\ opt_steps["encoder_net"] >= 1
  /\ codebook = cb_start
  /\ codebook # ema_means

=============================================================================
